---- MODULE Spec2Model ----
(***************************************************************************)
(* Model of src/server/controllers/ai.js (Nexterm AI controller).          *)
(*                                                                         *)
(* Three specifications share the module:                                  *)
(*   SpecCfg   - the persisted AISettings record under getAISettings and   *)
(*               concurrent updateAISettings calls (each call is split at  *)
(*               its awaits: read, store update, re-read);                 *)
(*   SpecOps   - testAIConnection, generateCommand, model listing and the  *)
(*               configuration validator against a nondeterministic        *)
(*               transport;                                                *)
(*   SpecParse - parseAIResponse on character-level strings.               *)
(*                                                                         *)
(* JavaScript strings that the code only compares are TLA+ strings;        *)
(* strings that the code scans (parseAIResponse) are sequences of          *)
(* one-character strings.  null is Null, a missing key of an object is a   *)
(* field outside the DOMAIN of the record.                                 *)
(***************************************************************************)
EXTENDS Naturals, Sequences, FiniteSets, TLC

VARIABLES
    store,        \* the single AISettings row, or NoRecord
    shadow,       \* a second store, equal to store but for the credential's value
    pc,           \* per caller: position inside updateAISettings
    patch,        \* per caller: the updateData argument of its call
    snap,         \* per caller: the settings object read at line 79
    ret,          \* per caller: value returned by updateAISettings
    shadowRet,    \* per caller: value returned on the shadow store
    lastGet,      \* value returned by the last getAISettings
    shadowGet,    \* the same on the shadow store
    store0,       \* the store before any call ran
    order,        \* callers in the order their store update ran
    op,           \* SpecOps: the operation that last ran
    settings,     \* SpecOps: the row the operation read (AISettings.findOne)
    result,       \* SpecOps: the value the operation returned
    threw,        \* SpecOps: the operation ended in an exception
    netCalls,     \* SpecOps: fetch calls made by the operation
    resp,         \* SpecOps: what the transport answered
    raw,          \* SpecParse: the raw completion text
    parsed        \* SpecParse: the result of parseAIResponse, or Pending

vars == <<store, shadow, pc, patch, snap, ret, shadowRet, lastGet, shadowGet,
          store0, order, op, settings, result, threw, netCalls, resp, raw, parsed>>

cfgVars == <<store, shadow, pc, patch, snap, ret, shadowRet, lastGet, shadowGet,
             store0, order>>
opsVars == <<op, settings, result, threw, netCalls, resp>>
parseVars == <<raw, parsed>>

Null == "<null>"
\* a store with no row (findOne() gives null); a result not yet produced
NoRecord == [norecord |-> TRUE]
None == [none |-> TRUE]
NoOp == "<none>"

----------------------------------------------------------------------------
(* parseAIResponse, lines 331-350.  A string is a sequence of one-character *)
(* strings; an absent (undefined) argument is Undefined, a string s is      *)
(* Text(s).                                                                 *)

Undefined == <<>>
Text(s) == <<s>>
Pending == <<"<pending>">>

\* the characters of the alphabet that JavaScript's \s and trim() treat as
\* white space, and those that "." does not match
WhiteSpace == {" ", "\n", "\r", "\t"}
LineTerminators == {"\n", "\r"}

NO_COMMAND ==
    <<"e", "c", "h", "o", " ", "'", "N", "o", " ", "c", "o", "m", "m",
      "a", "n", "d", " ", "g", "e", "n", "e", "r", "a", "t", "e", "d",
      "'">>

NOT_PROPERLY ==
    <<"e", "c", "h", "o", " ", "'", "C", "o", "m", "m", "a", "n", "d",
      " ", "n", "o", "t", " ", "p", "r", "o", "p", "e", "r", "l", "y",
      " ", "g", "e", "n", "e", "r", "a", "t", "e", "d", "'">>

\* the backquote character, which a TLA+ string cannot hold
BACKQUOTE == "BQ"

TICKS == <<BACKQUOTE, BACKQUOTE, BACKQUOTE>>
BASH == <<"b", "a", "s", "h">>
SH == <<"s", "h">>
SHELL == <<"s", "h", "e", "l", "l">>
USER_LABEL == <<"u", "s", "e", "r", ":">>
RESPONSE_LABEL == <<"r", "e", "s", "p", "o", "n", "s", "e", ":">>

\* String.prototype.toLowerCase on the letters of the alphabet
lowerChar(ch) ==
    CASE ch = "U" -> "u"
      [] ch = "R" -> "r"
      [] ch = "S" -> "s"
      [] ch = "E" -> "e"
      [] OTHER -> ch

toLowerCase(s) == [i \in 1..Len(s) |-> lowerChar(s[i])]

\* pat occurs in s at position i
matchesAt(s, i, pat) ==
    /\ i + Len(pat) - 1 <= Len(s)
    /\ SubSeq(s, i, i + Len(pat) - 1) = pat

startsWith(s, pat) == matchesAt(s, 1, pat)

RECURSIVE trimStart(_)
trimStart(s) ==
    IF s # <<>> /\ Head(s) \in WhiteSpace THEN trimStart(Tail(s)) ELSE s

RECURSIVE trimEnd(_)
trimEnd(s) ==
    IF s # <<>> /\ s[Len(s)] \in WhiteSpace
    THEN trimEnd(SubSeq(s, 1, Len(s) - 1))
    ELSE s

\* String.prototype.trim
trim(s) == trimEnd(trimStart(s))

\* .replace(/[\r\n]+$/, "")
RECURSIVE stripTrailingBreaks(_)
stripTrailingBreaks(s) ==
    IF s # <<>> /\ s[Len(s)] \in LineTerminators
    THEN stripTrailingBreaks(SubSeq(s, 1, Len(s) - 1))
    ELSE s

\* length of the language tag (?:bash|sh|shell)? at position j: the first
\* alternative that matches, in the order written
tagLength(s, j) ==
    IF matchesAt(s, j, BASH) THEN Len(BASH)
    ELSE IF matchesAt(s, j, SH) THEN Len(SH)
    ELSE IF matchesAt(s, j, SHELL) THEN Len(SHELL)
    ELSE 0

\* .replace(/BQBQBQ(?:bash|sh|shell)?\n?/g, ""), scanning from position i
RECURSIVE stripFencesFrom(_, _)
stripFencesFrom(s, i) ==
    IF i > Len(s) THEN <<>>
    ELSE IF matchesAt(s, i, TICKS)
         THEN LET j == i + Len(TICKS)
                  k == j + tagLength(s, j)
                  m == IF k <= Len(s) /\ s[k] = "\n" THEN k + 1 ELSE k
              IN  stripFencesFrom(s, m)
         ELSE <<s[i]>> \o stripFencesFrom(s, i + 1)

\* .replace(/BQBQBQ/g, ""), scanning from position i
RECURSIVE stripTicksFrom(_, _)
stripTicksFrom(s, i) ==
    IF i > Len(s) THEN <<>>
    ELSE IF matchesAt(s, i, TICKS)
         THEN stripTicksFrom(s, i + Len(TICKS))
         ELSE <<s[i]>> \o stripTicksFrom(s, i + 1)

\* line 334
stripFences(s) == stripTicksFrom(stripFencesFrom(s, 1), 1)

\* last position of the run of characters "." matches that starts at c
RECURSIVE dotRunEnd(_, _)
dotRunEnd(s, c) ==
    IF c < Len(s) /\ s[c + 1] \notin LineTerminators
    THEN dotRunEnd(s, c + 1)
    ELSE c

\* (.+?)(?:\n|$) at position c: the end of the capture, or 0 when it fails.
\* The lazy group grows over non-terminators until a "\n" or the end follows.
captureEnd(s, c) ==
    IF c > Len(s) \/ s[c] \in LineTerminators THEN 0
    ELSE LET e == dotRunEnd(s, c)
         IN  IF e = Len(s) \/ s[e + 1] = "\n" THEN e ELSE 0

\* number of white-space characters from position j on
RECURSIVE spaceRun(_, _)
spaceRun(s, j) ==
    IF j <= Len(s) /\ s[j] \in WhiteSpace THEN 1 + spaceRun(s, j + 1) ELSE 0

\* \s*(.+?)(?:\n|$) at position j with \s* taking at most w characters:
\* greedy, giving characters back until the rest matches.  The capture as
\* Text(..), or Undefined when no split matches.
RECURSIVE captureAfter(_, _, _)
captureAfter(s, j, w) ==
    IF captureEnd(s, j + w) # 0
    THEN Text(SubSeq(s, j + w, captureEnd(s, j + w)))
    ELSE IF w = 0 THEN Undefined
    ELSE captureAfter(s, j, w - 1)

responseMatch_anchored(s, i) ==
    IF (i = 1 \/ s[i - 1] = "\n") /\ matchesAt(toLowerCase(s), i, RESPONSE_LABEL)
    THEN captureAfter(s, i + Len(RESPONSE_LABEL),
                      spaceRun(s, i + Len(RESPONSE_LABEL)))
    ELSE Undefined

\* /Response:\s*(.+?)(?:\n|$)/i tried at position i
responseMatchAt(s, i) ==
    IF matchesAt(toLowerCase(s), i, RESPONSE_LABEL)
    THEN captureAfter(s, i + Len(RESPONSE_LABEL),
                      spaceRun(s, i + Len(RESPONSE_LABEL)))
    ELSE Undefined

\* clean.match(/Response:\s*(.+?)(?:\n|$)/i): group 1 of the leftmost match
RECURSIVE responseMatchFrom(_, _)
responseMatchFrom(s, i) ==
    IF i > Len(s) THEN Undefined
    ELSE IF responseMatchAt(s, i) # Undefined THEN responseMatchAt(s, i)
    ELSE responseMatchFrom(s, i + 1)

\* clean.split("\n")
RECURSIVE split(_)
split(s) ==
    IF \A i \in 1..Len(s) : s[i] # "\n" THEN <<s>>
    ELSE LET n == CHOOSE i \in 1..Len(s) :
                    s[i] = "\n" /\ \A j \in 1..(i - 1) : s[j] # "\n"
         IN  <<SubSeq(s, 1, n - 1)>> \o split(SubSeq(s, n + 1, Len(s)))

\* line 341: .map(l => l.trim()).filter(Boolean)
nonEmptyLines(s) ==
    SelectSeq([i \in 1..Len(split(s)) |-> trim(split(s)[i])],
              LAMBDA l : l # <<>>)

isLabelled(l) ==
    \/ startsWith(toLowerCase(l), USER_LABEL)
    \/ startsWith(toLowerCase(l), RESPONSE_LABEL)

\* line 343: lines.find(...), as Text(line) or Undefined
findCommand(lines) ==
    LET cmds == SelectSeq(lines, LAMBDA l : ~isLabelled(l))
    IN  IF cmds = <<>> THEN Undefined ELSE Text(Head(cmds))

\* lines 331-350
parseAIResponse(response) ==
    IF response = Undefined \/ response[1] = <<>> THEN NO_COMMAND
    ELSE
    LET clean == stripFences(response[1])
        responseMatch == responseMatchFrom(clean, 1)
        lines == nonEmptyLines(clean)
        cmd == findCommand(lines)
        rest == stripTrailingBreaks(trim(clean))
    IN  IF responseMatch # Undefined
        THEN stripTrailingBreaks(trim(responseMatch[1]))
        ELSE IF startsWith(toLowerCase(clean), USER_LABEL) THEN NOT_PROPERLY
        ELSE IF Len(lines) > 1 /\ cmd # Undefined
        THEN stripTrailingBreaks(trim(cmd[1]))
        ELSE IF startsWith(toLowerCase(clean), RESPONSE_LABEL) THEN NOT_PROPERLY
        ELSE IF rest = <<>> THEN NO_COMMAND
        ELSE rest

----------------------------------------------------------------------------
(* SpecParse: parseAIResponse applied to bounded raw completions           *)

MaxPieces == 4

\* the fragments raw completions are built from
Pieces ==
    {<<"\n">>, <<" ">>, <<"l", "s">>, <<"U", "s", "e", "r", ":">>,
     <<"R", "e", "s", "p", "o", "n", "s", "e", ":">>, TICKS, SH, <<"\r">>}

RECURSIVE concat(_)
concat(ps) == IF ps = <<>> THEN <<>> ELSE Head(ps) \o concat(Tail(ps))

RawInputs ==
    {Undefined} \cup
    {Text(concat(ps)) : ps \in UNION {[1..n -> Pieces] : n \in 0..MaxPieces}}

----------------------------------------------------------------------------
(* The AISettings record                                                   *)

Fields == {"enabled", "provider", "model", "apiKey", "apiUrl"}

SettingsId == 1

\* getOrCreateSettings creates the row "with all fields unset/disabled"
DefaultSettings ==
    [id |-> SettingsId, enabled |-> FALSE, provider |-> Null, model |-> Null,
     apiKey |-> Null, apiUrl |-> Null]

\* AISettings.findOne(): the row, or null when there is none
findOne(st) == st

getOrCreateSettings(st) == IF st = NoRecord THEN DefaultSettings ELSE st

sanitizeSettingsResponse(s) ==
    [enabled |-> s.enabled, provider |-> s.provider, model |-> s.model,
     apiUrl |-> s.apiUrl, hasApiKey |-> (s.apiKey # Null /\ s.apiKey # "")]

getAISettings_raw(s) == s

\* lines 72-75: the value getAISettings returns for the row it read
getAISettings(s) == sanitizeSettingsResponse(s)

updatePayload_keepEmpty(updateData) ==
    [f \in DOMAIN updateData |-> updateData[f]]

\* lines 81-86: only the keys that are not undefined; "" clears the credential
updatePayload(updateData) ==
    [f \in DOMAIN updateData |->
        IF f = "apiKey" /\ updateData[f] = "" THEN Null ELSE updateData[f]]

\* AISettings.update(payload, {where: {id}}): sets the payload's columns on
\* the rows with that id
AISettingsUpdate(st, payload, id) ==
    IF st # NoRecord /\ st.id = id
    THEN [f \in DOMAIN st |-> IF f \in DOMAIN payload THEN payload[f] ELSE st[f]]
    ELSE st

\* line 88
settingsId(s) == s.id

updateRow_staleSave(st, snapshot, payload) ==
    AISettingsUpdate(st,
        [f \in Fields |-> IF f \in DOMAIN payload THEN payload[f] ELSE snapshot[f]],
        settingsId(snapshot))

\* lines 88-89: the store update of the payload, keyed by the id read before
updateRow(st, snapshot, payload) ==
    AISettingsUpdate(st, payload, settingsId(snapshot))

----------------------------------------------------------------------------
(* Provider contract and validation, lines 27-70                           *)

OPENAI_BASE_URL == "https://api.openai.com/v1"
DEFAULT_OLLAMA_URL == "http://localhost:11434"

ProviderKinds == {"openai", "openai_compatible", "ollama"}

\* a JavaScript null where an object is expected
Nothing == [null |-> TRUE]

\* !value for the strings and nulls of a settings row
Falsy(v) == v = Null \/ v = ""

\* the base URLs a row may hold; the third carries a trailing slash
ApiUrls == {"", "http://u1", "http://u1/"}

\* trailing slashes stripped; null stays null
normalizeUrl(url) == IF url = "http://u1/" THEN "http://u1" ELSE url

authHeaders(apiKey) ==
    [Authorization |-> <<"Bearer ", apiKey>>, ContentType |-> "application/json"]

\* lines 27-58
getProviderConfig(s) ==
    IF s.provider = "openai"
    THEN [baseUrl |-> OPENAI_BASE_URL, headers |-> authHeaders(s.apiKey),
          requiresApiKey |-> TRUE, requiresApiUrl |-> FALSE]
    ELSE IF s.provider = "openai_compatible"
    THEN [baseUrl |-> normalizeUrl(s.apiUrl), headers |-> authHeaders(s.apiKey),
          requiresApiKey |-> TRUE, requiresApiUrl |-> TRUE]
    ELSE IF s.provider = "ollama"
    THEN [baseUrl |-> IF Falsy(normalizeUrl(s.apiUrl))
                      THEN DEFAULT_OLLAMA_URL ELSE normalizeUrl(s.apiUrl),
          headers |-> [ContentType |-> "application/json"],
          requiresApiKey |-> FALSE, requiresApiUrl |-> FALSE]
    ELSE Nothing

\* a structured error result {code, message}; the message is the sequence of
\* the parts of its template string
Failure(code, message) == [code |-> code, message |-> message]

providerName(s) == IF s.provider = "openai" THEN "OpenAI" ELSE "OpenAI Compatible"

validateProviderConfig_urlFirst(s, config) ==
    IF config = Nothing THEN Failure(400, <<"Unsupported provider">>)
    ELSE IF config.requiresApiUrl /\ Falsy(s.apiUrl)
    THEN Failure(400, <<"OpenAI Compatible API URL not configured">>)
    ELSE IF config.requiresApiKey /\ Falsy(s.apiKey)
    THEN Failure(400, <<providerName(s), " API key not configured">>)
    ELSE Nothing

\* lines 60-70
validateProviderConfig(s, config) ==
    IF config = Nothing THEN Failure(400, <<"Unsupported provider">>)
    ELSE IF config.requiresApiKey /\ Falsy(s.apiKey)
    THEN Failure(400, <<providerName(s), " API key not configured">>)
    ELSE IF config.requiresApiUrl /\ Falsy(s.apiUrl)
    THEN Failure(400, <<"OpenAI Compatible API URL not configured">>)
    ELSE Nothing

----------------------------------------------------------------------------
(* The transport: what one fetch call answers                               *)

\* model identifiers a provider may report ("" is a falsy name)
ModelIds == {"", "gpt-3.5", "gpt-4", "gpt-4-instruct", "m1"}

ModelLists ==
    {<<>>, <<"m1">>, <<"gpt-4">>, <<"gpt-4-instruct", "", "gpt-4", "gpt-3.5">>,
     <<"gpt-4", "m1">>}

\* a listing call: fetch throws; a non-2xx status; a 2xx whose body is not
\* JSON ("invalid"), or is JSON with a data array of ids, a models array of
\* names, or neither
ListResponses ==
    {[kind |-> "throw", status |-> "0", shape |-> "none", list |-> <<>>]}
    \cup {[kind |-> "status", status |-> st, shape |-> "none", list |-> <<>>] :
            st \in {"401", "500"}}
    \cup {[kind |-> "json", status |-> "200", shape |-> sh, list |-> <<>>] :
            sh \in {"invalid", "none"}}
    \cup {[kind |-> "json", status |-> "200", shape |-> sh, list |-> l] :
            sh \in {"data", "models"}, l \in ModelLists}

\* a chat call: as above, the body carrying choices[0].message.content
\* ("choices"), message.content ("message") or neither
ChatContents == {Undefined, Text(<<" ", "l", "s", "\n">>)}

ChatResponses ==
    {[kind |-> "throw", status |-> "0", shape |-> "none", content |-> Undefined]}
    \cup {[kind |-> "status", status |-> st, shape |-> "none", content |-> Undefined] :
            st \in {"401", "500"}}
    \cup {[kind |-> "json", status |-> "200", shape |-> sh, content |-> Undefined] :
            sh \in {"invalid", "none"}}
    \cup {[kind |-> "json", status |-> "200", shape |-> sh, content |-> c] :
            sh \in {"choices", "message"}, c \in ChatContents}

NETWORK_ERROR == "fetch failed"
JSON_ERROR == "Unexpected token in JSON"
TYPE_ERROR == "Cannot read properties of undefined"

\* how an operation ends: the value returned, or the error thrown, and the
\* number of fetch calls it made
Return(value, calls) == [value |-> value, threw |-> FALSE, calls |-> calls]
Throw(message, calls) == [value |-> [error |-> message], threw |-> TRUE, calls |-> calls]

Range(seq) == {seq[i] : i \in 1..Len(seq)}

----------------------------------------------------------------------------
(* testAIConnection, lines 95-170                                           *)

modelExists_anyListed(list, model) == list # <<>>

\* lines 116 and 157: data.data.some(model => model.id === settings.model)
modelExists(list, model) == \E i \in 1..Len(list) : list[i] = model

\* line 138: models.includes(settings.model)
includes(list, model) == model \in Range(list)

\* what the catch of lines 166-169 returns for an error thrown inside the try
connectionTestFailed(message) ==
    Failure(500, <<"Connection test failed: ", message>>)

\* lines 106-121 and 147-162: the listing by id of openai and
\* openai_compatible, after the fetch
probeById(s, r, place) ==
    IF r.kind = "throw" THEN connectionTestFailed(NETWORK_ERROR)
    ELSE IF r.kind = "status" THEN Failure(500, <<"OpenAI API error: ", r.status>>)
    ELSE IF r.shape = "invalid" THEN connectionTestFailed(JSON_ERROR)
    ELSE IF r.shape # "data" THEN connectionTestFailed(TYPE_ERROR)
    ELSE IF ~modelExists(r.list, s.model)
    THEN Failure(400, <<"Configured model \"", s.model, "\" not found in ", place>>)
    ELSE [success |-> TRUE, message |-> <<"Connection test successful">>]

\* lines 126-141: the tags listing of ollama, after the fetch
probeByName(s, r) ==
    IF r.kind = "throw" THEN connectionTestFailed(NETWORK_ERROR)
    ELSE IF r.kind = "status" THEN Failure(500, <<"Ollama API error: ", r.status>>)
    ELSE IF r.shape = "invalid" THEN connectionTestFailed(JSON_ERROR)
    ELSE IF ~includes(IF r.shape = "models" THEN r.list ELSE <<>>, s.model)
    THEN Failure(400, <<"Configured model \"", s.model, "\" not found in ", "Ollama">>)
    ELSE [success |-> TRUE, message |-> <<"Connection test successful">>]

\* lines 95-170, for the row s that findOne gave and the answer r of the
\* transport should a fetch be made
testAIConnection(s, r) ==
    IF s = NoRecord \/ ~s.enabled THEN Return(Failure(400, <<"AI is not enabled">>), 0)
    ELSE IF Falsy(s.provider)
    THEN Return(Failure(400, <<"No AI provider configured">>), 0)
    ELSE IF Falsy(s.model) THEN Return(Failure(400, <<"No AI model configured">>), 0)
    ELSE IF s.provider = "openai"
    THEN IF Falsy(s.apiKey)
         THEN Return(Failure(400, <<"OpenAI API key not configured">>), 0)
         ELSE Return(probeById(s, r, "your OpenAI account"), 1)
    ELSE IF s.provider = "ollama" THEN Return(probeByName(s, r), 1)
    ELSE IF s.provider = "openai_compatible"
    THEN IF Falsy(s.apiUrl)
         THEN Return(Failure(400, <<"OpenAI Compatible API URL not configured">>), 0)
         ELSE IF Falsy(s.apiKey)
         THEN Return(Failure(400, <<"OpenAI Compatible API key not configured">>), 0)
         ELSE Return(probeById(s, r, "OpenAI Compatible API"), 1)
    ELSE Return([success |-> TRUE, message |-> <<"Connection test successful">>], 0)

----------------------------------------------------------------------------
(* fetchModelsForProvider, lines 172-250.  The braces of the source do not  *)
(* balance; each provider branch is read with its own try and catch.        *)

\* .includes(marker) on the identifiers of ModelIds
idIncludes(id, marker) ==
    <<id, marker>> \in {<<"gpt-3.5", "gpt">>, <<"gpt-4", "gpt">>,
                        <<"gpt-4-instruct", "gpt">>, <<"gpt-4-instruct", "instruct">>}

\* lines 207-215
isChatModel(id) ==
    /\ idIncludes(id, "gpt")
    /\ \A marker \in {"instruct", "edit", "embedding", "whisper", "tts", "dall-e"} :
          ~idIncludes(id, marker)

\* the order of Array.prototype.sort on the identifiers of ModelIds
idRank(id) ==
    CASE id = "" -> 0
      [] id = "gpt-3.5" -> 1
      [] id = "gpt-4" -> 2
      [] id = "gpt-4-instruct" -> 3
      [] id = "m1" -> 4

RECURSIVE insertSorted(_, _)
insertSorted(id, seq) ==
    IF seq = <<>> THEN <<id>>
    ELSE IF idRank(id) <= idRank(Head(seq)) THEN <<id>> \o seq
    ELSE <<Head(seq)>> \o insertSorted(id, Tail(seq))

RECURSIVE sort(_)
sort(seq) == IF seq = <<>> THEN <<>> ELSE insertSorted(Head(seq), sort(Tail(seq)))

\* lines 185 and 240: .map(model => model.name).filter(name => name)
truthyNames(r) ==
    IF r.shape = "models" THEN SelectSeq(r.list, LAMBDA name : name # "") ELSE <<>>

\* lines 172-250
fetchModelsForProvider(s, config, r) ==
    IF s.provider = "ollama"
    THEN IF r.kind = "throw" THEN Return([models |-> <<>>], 1)
         ELSE IF r.kind = "status"
         THEN Return([error |-> Failure(500, <<"Ollama API error: ", r.status>>)], 1)
         ELSE IF r.shape = "invalid" THEN Return([models |-> <<>>], 1)
         ELSE Return([models |-> truthyNames(r)], 1)
    ELSE IF s.provider = "openai"
    THEN IF Falsy(s.apiKey)
         THEN Return(Failure(400, <<"OpenAI API key not configured">>), 0)
         ELSE IF r.kind = "throw" THEN Return([models |-> <<>>], 1)
         ELSE IF r.kind = "status"
         THEN Return(Failure(500, <<"Failed to fetch models from OpenAI">>), 1)
         ELSE IF r.shape # "data" THEN Return([models |-> <<>>], 1)
         ELSE Return([models |-> sort(SelectSeq(r.list, isChatModel))], 1)
    ELSE IF s.provider = "openai_compatible"
    THEN IF Falsy(s.apiUrl)
         THEN Return(Failure(400, <<"OpenAI Compatible API URL not configured">>), 0)
         ELSE IF Falsy(s.apiKey)
         THEN Return(Failure(400, <<"OpenAI Compatible API key not configured">>), 0)
         ELSE IF r.kind = "throw" THEN Return([models |-> <<>>], 1)
         ELSE IF r.kind = "status"
         THEN Return(Failure(500,
                  <<"Failed to fetch models from OpenAI Compatible API">>), 1)
         ELSE IF r.shape = "invalid" THEN Return([models |-> <<>>], 1)
         ELSE Return([models |-> truthyNames(r)], 1)
    ELSE Return(Failure(400, <<"Unsupported provider">>), 0)

----------------------------------------------------------------------------
(* generateCommand, lines 252-329.  The body is read statement by           *)
(* statement.  The identifiers config and systemPrompt are declared nowhere *)
(* in the file: whether the global scope binds them is not decided by the   *)
(* source, so it is an input; unbound, the reference throws.                *)

REFERENCE_ERROR == "is not defined"

\* content?.trim()
trimmedContent(content) ==
    IF content = Undefined THEN Undefined ELSE Text(trim(content[1]))

\* lines 276-301
generateOpenAICommand(s, r, configBound) ==
    IF Falsy(s.apiKey) THEN Throw(<<"OpenAI API key not configured">>, 0)
    ELSE IF ~configBound THEN Throw(<<"config ", REFERENCE_ERROR>>, 0)
    ELSE IF r.kind = "throw" THEN Throw(<<NETWORK_ERROR>>, 1)
    ELSE IF r.kind = "status" THEN Throw(<<"API error: ", r.status>>, 1)
    ELSE IF r.shape = "invalid" THEN Throw(<<JSON_ERROR>>, 1)
    ELSE IF r.shape # "choices" THEN Throw(<<TYPE_ERROR>>, 1)
    ELSE Return(parseAIResponse(trimmedContent(r.content)), 1)

\* lines 303-329
generateOllamaCommand(s, r, configBound) ==
    IF ~configBound THEN Throw(<<"config ", REFERENCE_ERROR>>, 0)
    ELSE IF r.kind = "throw" THEN Throw(<<NETWORK_ERROR>>, 1)
    ELSE IF r.kind = "status" THEN Throw(<<"Ollama API error: ", r.status>>, 1)
    ELSE IF r.shape = "invalid" THEN Throw(<<JSON_ERROR>>, 1)
    ELSE Return(parseAIResponse(
                   trimmedContent(IF r.shape = "message" THEN r.content ELSE Undefined)), 1)

\* lines 259-267: the first dispatch
firstCommand(s, r, configBound) ==
    IF s.provider = "openai" THEN generateOpenAICommand(s, r, configBound)
    ELSE generateOllamaCommand(s, r, configBound)

\* lines 269-271: the second dispatch
secondCommand(s, r, configBound) ==
    IF s.provider = "ollama" THEN generateOllamaCommand(s, r, configBound)
    ELSE generateOpenAICommand(s, r, configBound)

\* lines 252-274, for the row s, the answers r1 and r2 of the transport to a
\* first and a second fetch, and the bindings of the free identifiers
generateCommand(s, r1, r2, configBound, systemPromptBound) ==
    IF s = NoRecord \/ ~s.enabled THEN Return(Failure(400, <<"AI is not enabled">>), 0)
    ELSE IF Falsy(s.provider) \/ Falsy(s.model)
    THEN Return(Failure(400, <<"AI not properly configured">>), 0)
    ELSE IF s.provider \notin ProviderKinds
    THEN Return(Failure(400, <<"Unsupported AI provider">>), 0)
    ELSE LET first == firstCommand(s, r1, configBound)
             second == secondCommand(s, r2, configBound)
         IN  IF first.threw THEN first
             ELSE IF ~systemPromptBound
             THEN Throw(<<"systemPrompt ", REFERENCE_ERROR>>, first.calls)
             ELSE IF second.threw
             THEN Throw(second.value.error, first.calls + second.calls)
             ELSE Return([command |-> second.value], first.calls + second.calls)

----------------------------------------------------------------------------
(* SpecCfg: getAISettings and concurrent updateAISettings                   *)

Callers == {"a", "b"}

EnabledOpt == {<<>>, <<TRUE>>}
ProviderOpt == {<<>>, <<"openai">>}
ModelOpt == {<<>>, <<"m1">>}
ApiKeyOpt == {<<>>, <<"">>, <<"k1">>}
ApiUrlOpt == {<<>>, <<"u1">>}

Supplied(e, p, m, k, u) ==
    {f \in Fields : \/ f = "enabled" /\ e # <<>>
                    \/ f = "provider" /\ p # <<>>
                    \/ f = "model" /\ m # <<>>
                    \/ f = "apiKey" /\ k # <<>>
                    \/ f = "apiUrl" /\ u # <<>>}

\* an update request: a record over the fields it supplies
UpdateData(e, p, m, k, u) ==
    [f \in Supplied(e, p, m, k, u) |->
        CASE f = "enabled" -> e[1]
          [] f = "provider" -> p[1]
          [] f = "model" -> m[1]
          [] f = "apiKey" -> k[1]
          [] f = "apiUrl" -> u[1]]

UpdateRequests ==
    {UpdateData(e, p, m, k, u) :
        e \in EnabledOpt, p \in ProviderOpt, m \in ModelOpt,
        k \in ApiKeyOpt, u \in ApiUrlOpt}

\* the other credential: the stores differ only in the value of a non-null key
OtherKey(k) == IF k = "k1" THEN "k2" ELSE k

Shadowed(st) ==
    IF st = NoRecord THEN st ELSE [st EXCEPT !.apiKey = OtherKey(st.apiKey)]

InitStores ==
    {NoRecord,
     [DefaultSettings EXCEPT !.enabled = TRUE, !.provider = "openai",
                             !.model = "m1", !.apiKey = "k1"],
     [DefaultSettings EXCEPT !.provider = "ollama", !.apiUrl = "u0",
                             !.apiKey = "k1"]}

OpsIdle ==
    /\ op = NoOp /\ settings = None /\ result = None
    /\ threw = FALSE /\ netCalls = 0 /\ resp = None

ParseIdle == raw = Undefined /\ parsed = Pending

InitCfg ==
    /\ store \in InitStores
    /\ shadow = Shadowed(store)
    /\ pc = [c \in Callers |-> "idle"]
    /\ patch = [c \in Callers |-> None]
    /\ snap = [c \in Callers |-> None]
    /\ ret = [c \in Callers |-> None]
    /\ shadowRet = [c \in Callers |-> None]
    /\ lastGet = None
    /\ shadowGet = None
    /\ store0 = store
    /\ order = <<>>
    /\ OpsIdle
    /\ ParseIdle

\* getAISettings, lines 72-75
GetAISettings ==
    /\ store' = getOrCreateSettings(store)
    /\ shadow' = getOrCreateSettings(shadow)
    /\ lastGet' = getAISettings(store')
    /\ shadowGet' = getAISettings(shadow')
    /\ UNCHANGED <<pc, patch, snap, ret, shadowRet, store0, order>>
    /\ UNCHANGED <<opsVars, parseVars>>

\* updateAISettings, lines 77-79: the call and its settings read
UpdateRead(c) ==
    /\ pc[c] = "idle"
    /\ \E updateData \in UpdateRequests : patch' = [patch EXCEPT ![c] = updateData]
    /\ store' = getOrCreateSettings(store)
    /\ shadow' = getOrCreateSettings(shadow)
    /\ snap' = [snap EXCEPT ![c] = store']
    /\ pc' = [pc EXCEPT ![c] = "update"]
    /\ ret' = [ret EXCEPT ![c] = None]
    /\ shadowRet' = [shadowRet EXCEPT ![c] = None]
    /\ UNCHANGED <<lastGet, shadowGet, store0, order>>
    /\ UNCHANGED <<opsVars, parseVars>>

\* updateAISettings, lines 81-89: the payload and the store update
UpdateWrite(c) ==
    /\ pc[c] = "update"
    /\ store' = updateRow(store, snap[c], updatePayload(patch[c]))
    /\ shadow' = updateRow(shadow, snap[c], updatePayload(patch[c]))
    /\ order' = Append(order, c)
    /\ pc' = [pc EXCEPT ![c] = "reread"]
    /\ UNCHANGED <<patch, snap, ret, shadowRet, lastGet, shadowGet, store0>>
    /\ UNCHANGED <<opsVars, parseVars>>

\* updateAISettings, lines 91-92: the re-read and the sanitized return value
UpdateReread(c) ==
    /\ pc[c] = "reread"
    /\ ret' = [ret EXCEPT ![c] = sanitizeSettingsResponse(findOne(store))]
    /\ shadowRet' = [shadowRet EXCEPT ![c] = sanitizeSettingsResponse(findOne(shadow))]
    /\ pc' = [pc EXCEPT ![c] = "done"]
    /\ UNCHANGED <<store, shadow, patch, snap, lastGet, shadowGet, store0, order>>
    /\ UNCHANGED <<opsVars, parseVars>>

NextCfg ==
    \/ GetAISettings
    \/ \E c \in Callers : UpdateRead(c)
    \/ \E c \in Callers : UpdateWrite(c)
    \/ \E c \in Callers : UpdateReread(c)

SpecCfg == InitCfg /\ [][NextCfg]_vars

----------------------------------------------------------------------------
(* SpecOps: the operations that read the row and call the provider          *)

\* the rows the store may hold: updateAISettings stores any value it is
\* given, but never an empty credential
OpsStores ==
    {NoRecord} \cup
    {[id |-> SettingsId, enabled |-> e, provider |-> p, model |-> m,
      apiKey |-> k, apiUrl |-> u] :
        e \in BOOLEAN,
        p \in ProviderKinds \cup {Null, "other"},
        m \in {Null, "m1", "gpt-4"},
        k \in {Null, "k1"},
        u \in ApiUrls \cup {Null}}

InitOps ==
    /\ store \in OpsStores
    /\ shadow = store
    /\ store0 = store
    /\ pc = [c \in Callers |-> "idle"]
    /\ patch = [c \in Callers |-> None]
    /\ snap = [c \in Callers |-> None]
    /\ ret = [c \in Callers |-> None]
    /\ shadowRet = [c \in Callers |-> None]
    /\ lastGet = None /\ shadowGet = None
    /\ order = <<>>
    /\ OpsIdle
    /\ ParseIdle

\* a request runs one operation to its end; the operations keep nothing
\* between requests
Finish(name, out, answer) ==
    /\ op = NoOp
    /\ op' = name
    /\ settings' = findOne(store)
    /\ result' = out.value
    /\ threw' = out.threw
    /\ netCalls' = out.calls
    /\ resp' = answer
    /\ UNCHANGED <<cfgVars, parseVars>>

TestAIConnection ==
    \E r \in ListResponses :
        Finish("testConnection", testAIConnection(findOne(store), r), r)

GenerateCommand ==
    \E r1 \in ChatResponses, r2 \in ChatResponses,
       configBound \in BOOLEAN, systemPromptBound \in BOOLEAN :
        Finish("generateCommand",
               generateCommand(findOne(store), r1, r2, configBound, systemPromptBound),
               [first |-> r1, second |-> r2, configBound |-> configBound,
                systemPromptBound |-> systemPromptBound])

\* model listing: fetchModelsForProvider on the row and its contract (the
\* function that reads the row for it is not part of the source; the row
\* exists)
ListModels ==
    /\ store # NoRecord
    /\ \E r \in ListResponses :
          Finish("listModels",
                 fetchModelsForProvider(findOne(store),
                                        getProviderConfig(findOne(store)), r), r)

\* the validator on the row and its contract
ValidateConfig ==
    /\ store # NoRecord
    /\ Finish("validate",
              Return(validateProviderConfig(findOne(store),
                                            getProviderConfig(findOne(store))), 0),
              None)

\* the caller takes the outcome; the next request may come
Respond ==
    /\ op # NoOp
    /\ op' = NoOp /\ settings' = None /\ result' = None
    /\ threw' = FALSE /\ netCalls' = 0 /\ resp' = None
    /\ UNCHANGED <<cfgVars, parseVars>>

NextOps ==
    \/ TestAIConnection
    \/ GenerateCommand
    \/ ListModels
    \/ ValidateConfig
    \/ Respond

SpecOps == InitOps /\ [][NextOps]_vars

----------------------------------------------------------------------------
(* SpecParse                                                               *)

CfgIdle ==
    /\ store = NoRecord /\ shadow = NoRecord
    /\ pc = [c \in Callers |-> "idle"]
    /\ patch = [c \in Callers |-> None]
    /\ snap = [c \in Callers |-> None]
    /\ ret = [c \in Callers |-> None]
    /\ shadowRet = [c \in Callers |-> None]
    /\ lastGet = None /\ shadowGet = None
    /\ store0 = NoRecord /\ order = <<>>

InitParse ==
    /\ raw \in RawInputs
    /\ parsed = Pending
    /\ CfgIdle
    /\ OpsIdle

\* the normalizer runs on the raw completion
Parse ==
    /\ parsed = Pending
    /\ parsed' = parseAIResponse(raw)
    /\ UNCHANGED <<raw, cfgVars, opsVars>>

NextParse == Parse

SpecParse == InitParse /\ [][NextParse]_vars

----------------------------------------------------------------------------
(* Claims about the configuration record                                   *)

\* what a call stores in field f when it supplies it
StoredValue(c, f) ==
    IF f = "apiKey" /\ patch[c][f] = "" THEN Null ELSE patch[c][f]

\* C5: updateAISettings changes only the fields present in the request: its
\* settings read leaves an existing row as it is, and its store update gives
\* every supplied field the supplied value (an empty-string credential becomes
\* null) and leaves every absent field, so all of them for {}, at its prior
\* value.
C5_PartialUpdate ==
    [][\A c \in Callers :
        /\ (pc[c] = "idle" /\ pc'[c] = "update" /\ store # NoRecord)
              => store' = store
        /\ (pc[c] = "update" /\ pc'[c] = "reread")
              => \A f \in Fields :
                    store'[f] = IF f \in DOMAIN patch[c]
                                THEN StoredValue(c, f)
                                ELSE store[f]]_vars

\* a call that cleared a stored credential with "" and left the model alone
C5_Witness ==
    \E c \in Callers :
        /\ pc[c] = "reread"
        /\ order = <<c>>
        /\ DOMAIN patch[c] = {"apiKey"}
        /\ patch[c].apiKey = ""
        /\ store0 # NoRecord
        /\ store0.apiKey = "k1"
        /\ store0.model = "m1"
        /\ store.apiKey = Null
        /\ store.model = "m1"

WritePos(c) == CHOOSE i \in 1..Len(order) : order[i] = c

\* C10: when both concurrent updateAISettings calls have completed, each field
\* holds the value of the call whose store update ran last among the calls
\* that supplied it, and a field no call supplied holds its value from before
\* the calls.
C10_LastWriteWins ==
    (\A c \in Callers : pc[c] = "done") =>
        \A f \in Fields :
            LET sup == {c \in Callers : f \in DOMAIN patch[c]}
                base == getOrCreateSettings(store0)
            IN  IF sup = {}
                THEN store[f] = base[f]
                ELSE LET last == CHOOSE c \in sup :
                                    \A d \in sup : WritePos(d) <= WritePos(c)
                     IN  store[f] = StoredValue(last, f)

\* both calls done: one field supplied by both with different values, one
\* supplied by a single call, one by neither
C10_Witness ==
    /\ \A c \in Callers : pc[c] = "done"
    /\ "apiKey" \in DOMAIN patch["a"]
    /\ "apiKey" \in DOMAIN patch["b"]
    /\ patch["a"].apiKey # patch["b"].apiKey
    /\ "model" \in DOMAIN patch["a"]
    /\ "model" \notin DOMAIN patch["b"]
    /\ order = <<"a", "b">>
    /\ snap["b"].apiKey # store.apiKey
    /\ "apiUrl" \notin DOMAIN patch["a"]
    /\ "apiUrl" \notin DOMAIN patch["b"]
    /\ store.apiUrl = "u0"

----------------------------------------------------------------------------
(* Claims about the operations                                             *)

\* the stored configuration is invalid: disabled or no record, provider or
\* model unset, provider not supported, credential missing where required,
\* base URL missing for openai_compatible
InvalidConfig(s) ==
    \/ s = NoRecord
    \/ ~s.enabled
    \/ Falsy(s.provider)
    \/ Falsy(s.model)
    \/ s.provider \notin ProviderKinds
    \/ s.provider \in {"openai", "openai_compatible"} /\ Falsy(s.apiKey)
    \/ s.provider = "openai_compatible" /\ Falsy(s.apiUrl)

IsFailure(value, code) == "code" \in DOMAIN value /\ value.code = code

IsSuccess(value) == "success" \in DOMAIN value /\ value.success

\* C1: on an invalid stored configuration testConnection and generateCommand
\* return a structured result with code 400, throw nothing and make no
\* network call.
C1_ConfigErrorIs400 ==
    (op \in {"testConnection", "generateCommand"} /\ InvalidConfig(settings))
        => /\ ~threw
           /\ netCalls = 0
           /\ IsFailure(result, 400)

\* C2: every operation makes at most one network call per invocation, and
\* testConnection and generateCommand make exactly one when the configuration
\* passes all pre-checks.
C2_OneNetworkCall ==
    /\ op \in {"testConnection", "listModels", "generateCommand"} => netCalls <= 1
    /\ (op \in {"testConnection", "generateCommand"} /\ ~InvalidConfig(settings))
          => netCalls = 1

\* C3: a transport failure during model listing (the fetch throws, or answers
\* a non-2xx status) yields {models: []} for every provider kind, never an
\* exception and never a structured error.
C3_ListingFailureIsEmpty ==
    (op = "listModels" /\ netCalls = 1 /\ resp.kind \in {"throw", "status"})
        => ~threw /\ result = [models |-> <<>>]

\* the list of models a 2xx answer reports to the prober of that provider,
\* as Text(list), or Undefined when the body carries none
ReportedList(s, r) ==
    IF r.kind # "json" \/ r.shape = "invalid" THEN Undefined
    ELSE IF s.provider = "ollama"
    THEN Text(IF r.shape = "models" THEN r.list ELSE <<>>)
    ELSE IF r.shape = "data" THEN Text(r.list)
    ELSE Undefined

\* C4: for each provider kind, when the listing call of testConnection
\* succeeds and the configured model is not in the list the provider reports,
\* the result is a code-400 error naming the model; the success marker is
\* returned only when the model is in the reported list.
C4_ModelNotFound ==
    (op = "testConnection" /\ settings # NoRecord
        /\ settings.provider \in ProviderKinds)
        => LET reported == ReportedList(settings, resp)
           IN  /\ (netCalls = 1 /\ reported # Undefined
                     /\ settings.model \notin Range(reported[1]))
                      => /\ IsFailure(result, 400)
                         /\ Len(result.message) = 4
                         /\ result.message[2] = settings.model
                         /\ result.message[3] = "\" not found in "
               /\ IsSuccess(result)
                      => /\ netCalls = 1
                         /\ reported # Undefined
                         /\ settings.model \in Range(reported[1])

\* an openai_compatible endpoint answered 2xx with models, none the configured
C4_Witness ==
    /\ op = "testConnection"
    /\ settings # NoRecord
    /\ settings.provider = "openai_compatible"
    /\ settings.model = "m1"
    /\ netCalls = 1
    /\ resp.kind = "json" /\ resp.shape = "data" /\ resp.list = <<"gpt-4">>
    /\ IsFailure(result, 400)

IsKeyError(value) ==
    /\ IsFailure(value, 400)
    /\ Len(value.message) = 2
    /\ value.message[2] = " API key not configured"

\* C9: for each provider kind and every combination of the other fields the
\* validator, given the contract of getProviderConfig, returns the code-400
\* "API key not configured" error exactly when the contract requires a key and
\* the credential is absent: for openai and openai_compatible without a
\* credential, also when the base URL is missing too, and never for ollama.
C9_KeyErrorIff ==
    (op = "validate" /\ settings.provider \in ProviderKinds)
        => LET config == getProviderConfig(settings)
           IN  /\ IsKeyError(result) <=> (config.requiresApiKey /\ settings.apiKey = Null)
               /\ config.requiresApiKey <=>
                      settings.provider \in {"openai", "openai_compatible"}
               /\ settings.provider = "ollama" => ~IsKeyError(result)
               /\ (settings.provider # "ollama" /\ settings.apiKey = Null)
                      => IsKeyError(result)

\* openai_compatible with neither credential nor base URL
C9_Witness ==
    /\ op = "validate"
    /\ settings.provider = "openai_compatible"
    /\ settings.apiKey = Null
    /\ settings.apiUrl = Null
    /\ IsKeyError(result)

----------------------------------------------------------------------------
(* Claims about parseAIResponse                                            *)

\* C7: the string parseAIResponse returns is a single line: it holds no
\* newline character, whatever the raw completion text.
C7_SingleLine ==
    parsed # Pending => \A i \in 1..Len(parsed) : parsed[i] # "\n"

\* The cascade of the specification, stated on positions of the text rather
\* than by scanning it.

Min(S) == CHOOSE x \in S : \A y \in S : x <= y
Max(S) == CHOOSE x \in S : \A y \in S : y <= x

IsBlank(t) == \A k \in 1..Len(t) : t[k] \in WhiteSpace

Trimmed(t) ==
    IF IsBlank(t) THEN <<>>
    ELSE LET inked == {k \in 1..Len(t) : t[k] \notin WhiteSpace}
         IN  SubSeq(t, Min(inked), Max(inked))

BeginsWith(t, label) ==
    /\ Len(t) >= Len(label)
    /\ \A k \in 1..Len(label) : lowerChar(t[k]) = label[k]

\* a line starts at the head of the text and after every line feed
LineStarts(s) == {i \in 1..(Len(s) + 1) : i = 1 \/ s[i - 1] = "\n"}

LineLast(s, i) ==
    CHOOSE j \in (i - 1)..Len(s) :
        /\ j = Len(s) \/ s[j + 1] = "\n"
        /\ \A k \in i..j : s[k] # "\n"

Line(s, i) == SubSeq(s, i, LineLast(s, i))

TextLines(s) == {i \in LineStarts(s) : ~IsBlank(Line(s, i))}

PlainLines(s) ==
    {i \in TextLines(s) :
        /\ ~BeginsWith(Trimmed(Line(s, i)), USER_LABEL)
        /\ ~BeginsWith(Trimmed(Line(s, i)), RESPONSE_LABEL)}

\* rules 4 to 7, on the text without its fences
LaterRules(clean) ==
    IF BeginsWith(clean, USER_LABEL) THEN NOT_PROPERLY
    ELSE IF Cardinality(TextLines(clean)) > 1 /\ PlainLines(clean) # {}
    THEN Trimmed(Line(clean, Min(PlainLines(clean))))
    ELSE IF BeginsWith(clean, RESPONSE_LABEL) THEN NOT_PROPERLY
    ELSE IF IsBlank(clean) THEN NO_COMMAND
    ELSE Trimmed(clean)

\* rule 3 as the claim has it: a line that begins with the label (after white
\* space, when lead is TRUE) and carries after it anything at all
\* (need = "any"), a character (need = "char") or text that is not blank
\* (need = "text")
LabelLineText(s, i, lead) == IF lead THEN trimStart(Line(s, i)) ELSE Line(s, i)

AfterLabel(t) == SubSeq(t, Len(RESPONSE_LABEL) + 1, Len(t))

LabelLines(s, lead, need) ==
    {i \in LineStarts(s) :
        /\ BeginsWith(LabelLineText(s, i, lead), RESPONSE_LABEL)
        /\ need = "char" => AfterLabel(LabelLineText(s, i, lead)) # <<>>
        /\ need = "text" => ~IsBlank(AfterLabel(LabelLineText(s, i, lead)))}

ClaimedCascade(response, lead, need) ==
    IF response = Undefined \/ response[1] = <<>> THEN NO_COMMAND
    ELSE LET clean == stripFences(response[1])
         IN  IF LabelLines(clean, lead, need) # {}
             THEN Trimmed(AfterLabel(
                     LabelLineText(clean, Min(LabelLines(clean, lead, need)), lead)))
             ELSE LaterRules(clean)

\* every reading of "a line begins with a 'Response:' label"
ClaimedOutcomes(response) ==
    {ClaimedCascade(response, lead, need) :
        lead \in BOOLEAN, need \in {"any", "char", "text"}}

LabelAt(s, i) ==
    /\ i + Len(RESPONSE_LABEL) - 1 <= Len(s)
    /\ \A k \in 1..Len(RESPONSE_LABEL) : lowerChar(s[i + k - 1]) = RESPONSE_LABEL[k]

StretchLast(s, c) ==
    CHOOSE e \in c..Len(s) :
        /\ \A k \in c..e : s[k] \notin LineTerminators
        /\ e = Len(s) \/ s[e + 1] \in LineTerminators

CaptureStarts(s, i) ==
    {c \in (i + Len(RESPONSE_LABEL))..Len(s) :
        /\ \A k \in (i + Len(RESPONSE_LABEL))..(c - 1) : s[k] \in WhiteSpace
        /\ s[c] \notin LineTerminators
        /\ StretchLast(s, c) = Len(s) \/ s[StretchLast(s, c) + 1] = "\n"}

UsableLabels(s) == {i \in 1..Len(s) : LabelAt(s, i) /\ CaptureStarts(s, i) # {}}

AmendedCascade(response) ==
    IF response = Undefined \/ response[1] = <<>> THEN NO_COMMAND
    ELSE LET clean == stripFences(response[1])
         IN  IF UsableLabels(clean) # {}
             THEN LET c == Max(CaptureStarts(clean, Min(UsableLabels(clean))))
                  IN  Trimmed(SubSeq(clean, c, StretchLast(clean, c)))
             ELSE LaterRules(clean)

====
